---- MODULE Spec2Model ----
(***************************************************************************)
(* MyShell (src/src/myshell.cpp, Unix branch): a child process started     *)
(* through /bin/sh with three pipes, two reader threads that pump the      *)
(* child's stdout and stderr into mutex-protected string buffers, and the  *)
(* caller-side operations readShellOutputStream, readShellErrorStream,     *)
(* writeToShell, forceExit, hasExited and exitCode.                        *)
(*                                                                         *)
(* A byte is a pair <<k, v>>: v is the byte value (0 is the NUL byte) and  *)
(* k is its position in the stream the child wrote it to, kept so that     *)
(* loss, duplication and reordering of bytes are visible.                  *)
(***************************************************************************)
EXTENDS Integers, Sequences, FiniteSets, TLC

\* ---------------------------------------------------------------- bounds
MaxOutput == 2          \* bytes the child produces in total (both streams)
MaxEcho == 1            \* of these, bytes an echoing child copies from stdin
MaxInput == 1           \* bytes the stdin pipe holds before write() blocks

\* ------------------------------------------------------ program constants
bufferSize == 4096      \* MyShell::bufferSize
SIGTERM == 15           \* the signal forceExit sends

None == "none"
Streams == {"output", "error"}
Callers == {"main", "aux"}
ByteVals == {0, 1}      \* the NUL byte and a representative non-NUL byte
InputVals == {2}        \* the byte X the caller writes; the child echoes it
ExitCodes == {0, 3}     \* statuses the command may pass to exit()
CrashSignals == {11}    \* signals the command may die of on its own (SIGSEGV)
FdNames == {"inputPipe0", "inputPipe1", "outputPipe0", "outputPipe1",
            "errorPipe0", "errorPipe1"}
SpawnOutcomes == {"ok", "pipe1", "pipe2", "pipe3", "fork"}
SigPipeDispositions == {"default", "ignore"}

VARIABLES
    phase,          \* "init", "running", "failed" (constructor threw), "killed", "destroyed"
    fds,            \* pipe ends open in the parent process
    child,          \* "none", "running", "zombie" (terminated, unreaped), "reaped"
    childEnd,       \* <<"alive", 0>>, or how the child ended: <<"exit", n>>, <<"signal", g>>
    termPending,    \* SIGTERM sent to the running child and not yet acted upon
    procHasExited, procExitCode, stopSignal,
    pipe,           \* bytes in flight: input, output, error
    buffer,         \* outputBuffer / errorBuffer
    mutex,          \* outputMutex / errorMutex: None or the thread inside
    pumpPc,         \* position of outputReader / errorReader in readFromPipe
    tempBuffer,     \* each reader's tempBuffer[0 .. bytesRead-1]
    lastRead,       \* history: "eagain" or "eof" if the reader's latest read
                    \* brought no bytes and it has not slept since, else "ok"
    pc,             \* position of each calling thread (of main also in ~MyShell)
    op,             \* the public call a calling thread is inside
    cur,            \* the stream a calling thread is draining
    result,         \* local variable result of the drain in progress
    lastOp, retVal, \* the main thread's last completed call other than a drain, and its result
    wrote,          \* history: bytes the child wrote per stream
    appended,       \* history: bytes the readers appended per buffer
    drained,        \* history: drain results per buffer, in unlock order
    handed,         \* history: drain results returned to the caller
    forced,         \* history: forceExit has been called
    exitSeen        \* history: a hasExited call has returned true

vars == <<phase, fds, child, childEnd, termPending, procHasExited,
          procExitCode, stopSignal, pipe, buffer, mutex, pumpPc, tempBuffer,
          lastRead, pc, op, cur, result, lastOp, retVal, wrote, appended, drained,
          handed, forced, exitSeen>>

lifecycle == <<procHasExited, procExitCode, stopSignal>>
osVars == <<fds, child, childEnd, termPending>>
pumpVars == <<pumpPc, tempBuffer, lastRead>>
callVars == <<pc, op, cur, result>>
retVars == <<lastOp, retVal, exitSeen>>
histVars == <<wrote, appended, drained, handed>>

Min(a, b) == IF a < b THEN a ELSE b

\* ---------------------------------------------------------------- helpers

\* The C string held in a char array: the bytes before the first NUL.
CStr(s) ==
    LET nul == {i \in 1..Len(s) : s[i][2] = 0}
    IN  IF nul = {} THEN s
        ELSE SubSeq(s, 1, (CHOOSE i \in nul : \A j \in nul : i <= j) - 1)

\* The wait status the kernel reports for a terminated child.
WaitStatus(end) ==
    IF end[1] = "exit" THEN (end[2] % 256) * 256 ELSE end[2] % 128

WIFEXITED(status) == status % 128 = 0
WEXITSTATUS(status) == (status \div 256) % 256

\* MyShell::MyShell member initialisers
Init ==
    /\ phase = "init"
    /\ fds = {}
    /\ child = "none"
    /\ childEnd = <<"alive", 0>>
    /\ termPending = FALSE
    /\ procHasExited = FALSE
    /\ procExitCode = 0
    /\ stopSignal = FALSE
    /\ pipe = [input |-> <<>>, output |-> <<>>, error |-> <<>>]
    /\ buffer = [s \in Streams |-> <<>>]
    /\ mutex = [s \in Streams |-> None]
    /\ pumpPc = [s \in Streams |-> "unstarted"]
    /\ tempBuffer = [s \in Streams |-> <<>>]
    /\ lastRead = [s \in Streams |-> "ok"]
    /\ pc = [t \in Callers |-> "idle"]
    /\ op = [t \in Callers |-> None]
    /\ cur = [t \in Callers |-> None]
    /\ result = [t \in Callers |-> <<>>]
    /\ lastOp = None
    /\ retVal = None
    /\ wrote = [s \in Streams |-> <<>>]
    /\ appended = [s \in Streams |-> <<>>]
    /\ drained = [s \in Streams |-> <<>>]
    /\ handed = [s \in Streams |-> <<>>]
    /\ forced = FALSE
    /\ exitSeen = FALSE

\* ------------------------------------------------------------ construction

\* The descriptors pipe() has handed out when the call named by outcome fails.
PipesCreated(outcome) ==
    CASE outcome = "pipe1" -> {}
      [] outcome = "pipe2" -> {"inputPipe0", "inputPipe1"}
      [] outcome = "pipe3" -> {"inputPipe0", "inputPipe1",
                               "outputPipe0", "outputPipe1"}
      [] OTHER -> FdNames

closeUnixPipes(open) == open \ {"inputPipe1", "outputPipe0", "errorPipe0"}

\* The parent's open descriptors when createUnixProcess returns or throws.
createUnixProcess(outcome) ==
    CASE outcome \in {"pipe1", "pipe2", "pipe3"} -> PipesCreated(outcome)
      [] outcome = "fork" -> closeUnixPipes(PipesCreated(outcome))
      [] OTHER -> FdNames \ {"inputPipe0", "outputPipe1", "errorPipe1"}

\* MyShell::MyShell: spawn the child, then start both reader threads.
Construct(outcome) ==
    /\ phase = "init"
    /\ fds' = createUnixProcess(outcome)
    /\ IF outcome = "ok"
       THEN /\ phase' = "running"
            /\ child' = "running"
            /\ pumpPc' = [s \in Streams |-> "read"]
       ELSE /\ phase' = "failed"
            /\ UNCHANGED <<child, pumpPc>>
    /\ UNCHANGED <<childEnd, termPending, lifecycle, pipe, buffer, mutex,
                   tempBuffer, lastRead, callVars, retVars, histVars,
                   forced>>

\* --------------------------------------------------------------- the child

Produced == Len(wrote.output) + Len(wrote.error)

\* The command writes one byte of value v to its stdout or stderr.
ChildWrite(s, v) ==
    /\ phase = "running"
    /\ child = "running"
    /\ Produced < MaxOutput
    /\ LET b == <<Len(wrote[s]) + 1, v>>
       IN  /\ pipe' = [pipe EXCEPT ![s] = Append(@, b)]
           /\ wrote' = [wrote EXCEPT ![s] = Append(@, b)]
    /\ UNCHANGED <<phase, osVars, lifecycle, buffer, mutex, pumpVars,
                   callVars, retVars, appended, drained, handed, forced>>

\* The command reads one byte from its stdin and writes it to its stdout.
ChildEcho ==
    /\ phase = "running"
    /\ child = "running"
    /\ Produced < MaxEcho
    /\ pipe.input # <<>>
    /\ LET b == <<Len(wrote.output) + 1, Head(pipe.input)>>
       IN  /\ pipe' = [pipe EXCEPT !.input = Tail(@),
                                   !.output = Append(@, b)]
           /\ wrote' = [wrote EXCEPT !.output = Append(@, b)]
    /\ UNCHANGED <<phase, osVars, lifecycle, buffer, mutex, pumpVars,
                   callVars, retVars, appended, drained, handed, forced>>

\* The command terminates normally with status n.
ChildExit(n) ==
    /\ phase = "running"
    /\ child = "running"
    /\ child' = "zombie"
    /\ childEnd' = <<"exit", n>>
    /\ termPending' = FALSE
    /\ UNCHANGED <<phase, fds, lifecycle, pipe, buffer, mutex, pumpVars,
                   callVars, retVars, histVars, forced>>

\* The command is killed by signal g: a crash, or the SIGTERM of forceExit.
ChildSignalled(g) ==
    /\ phase = "running"
    /\ child = "running"
    /\ g = SIGTERM => termPending
    /\ child' = "zombie"
    /\ childEnd' = <<"signal", g>>
    /\ termPending' = FALSE
    /\ UNCHANGED <<phase, fds, lifecycle, pipe, buffer, mutex, pumpVars,
                   callVars, retVars, histVars, forced>>

\* ------------------------------------------------- readFromPipe (the pumps)

\* Variant of MutexFree in which nobody waits for the lock.
MutexIgnored(s) == TRUE

\* A lock_guard on the stream's mutex can be taken.
MutexFree(s) == mutex[s] = None

\* Variant of StopObserved for a reader that never sees the flag set.
StopNeverObserved == {FALSE}

\* The values the reader's test of stopSignal at the top of its loop can
\* yield.  The flag is a plain bool that the destructor's thread writes
\* without synchronisation: a pass of the loop may still find the old value
\* after the store.  The loop body calls read(), so every pass loads the
\* flag again.
StopObserved == {FALSE, stopSignal}

\* One pass of while(!stopSignal) up to the read:
\* bytesRead = read(pipe, tempBuffer.data(), bufferSize - 1) on the
\* non-blocking read end yields data, or 0 (end of file) once the child is
\* gone and the pipe is empty, or -1 with EAGAIN while the child still holds
\* the write end.  On 0 the loop starts over at once.
PumpRead(s) ==
    /\ phase = "running"
    /\ pumpPc[s] = "read"
    /\ \E stop \in StopObserved :
         IF stop
         THEN /\ pumpPc' = [pumpPc EXCEPT ![s] = "done"]
              /\ UNCHANGED <<pipe, tempBuffer, lastRead>>
         ELSE IF pipe[s] # <<>>
         THEN LET n == Min(Len(pipe[s]), bufferSize - 1)
              IN  /\ tempBuffer' = [tempBuffer EXCEPT ![s] = SubSeq(pipe[s], 1, n)]
                  /\ pipe' = [pipe EXCEPT ![s] = SubSeq(@, n + 1, Len(@))]
                  /\ pumpPc' = [pumpPc EXCEPT ![s] = "append"]
                  /\ lastRead' = [lastRead EXCEPT ![s] = "ok"]
         ELSE /\ pumpPc' = [pumpPc EXCEPT ![s] =
                               IF child = "running" THEN "sleep" ELSE "read"]
              /\ lastRead' = [lastRead EXCEPT ![s] =
                                 IF child = "running" THEN "eagain" ELSE "eof"]
              /\ UNCHANGED <<pipe, tempBuffer>>
    /\ UNCHANGED <<phase, osVars, lifecycle, buffer, mutex,
                   callVars, retVars, histVars, forced>>

\* Variant of AppendTo that puts the new bytes in front.
PrependTo(buf, temp) == CStr(temp) \o buf

\* The string after buffer += tempBuffer.data()
AppendTo(buf, temp) == buf \o CStr(temp)

\* tempBuffer[bytesRead] = '\0'; lock_guard lock(mutex);
\* buffer += tempBuffer.data();
PumpAppend(s) ==
    /\ phase = "running"
    /\ pumpPc[s] = "append"
    /\ MutexFree(s)
    /\ buffer' = [buffer EXCEPT ![s] = AppendTo(@, tempBuffer[s])]
    /\ appended' = [appended EXCEPT ![s] = @ \o CStr(tempBuffer[s])]
    /\ tempBuffer' = [tempBuffer EXCEPT ![s] = <<>>]
    /\ pumpPc' = [pumpPc EXCEPT ![s] = "read"]
    /\ UNCHANGED <<phase, osVars, lifecycle, pipe, mutex, lastRead,
                   callVars, retVars, wrote, drained, handed, forced>>

\* std::this_thread::sleep_for(10ms)
PumpSleep(s) ==
    /\ phase = "running"
    /\ pumpPc[s] = "sleep"
    /\ pumpPc' = [pumpPc EXCEPT ![s] = "read"]
    /\ lastRead' = [lastRead EXCEPT ![s] = "ok"]
    /\ UNCHANGED <<phase, osVars, lifecycle, pipe, buffer, mutex, tempBuffer,
                   callVars, retVars, histVars, forced>>

\* ------------------------------------ readShellOutputStream / ErrorStream

ReadOpOf(s) ==
    IF s = "output" THEN "readShellOutputStream" ELSE "readShellErrorStream"

\* What a std::string holds after std::move took its contents: the standard
\* leaves it valid but unspecified; builds leave it empty or untouched.
MovedFrom(buf) == {<<>>, buf}

\* lock_guard lock(mutex); std::string result = std::move(buffer);
LockAndMove(t, s) ==
    /\ MutexFree(s)
    /\ mutex' = [mutex EXCEPT ![s] = t]
    /\ result' = [result EXCEPT ![t] = buffer[s]]
    /\ \E rest \in MovedFrom(buffer[s]) : buffer' = [buffer EXCEPT ![s] = rest]
    /\ cur' = [cur EXCEPT ![t] = s]
    /\ pc' = [pc EXCEPT ![t] = "clear"]

\* Variant of Unlocked for a lock_guard that never lets go of the mutex.
UnlockedNever(m, s) == m

\* The mutexes after the lock_guard on stream s goes out of scope.
Unlocked(m, s) == [m EXCEPT ![s] = None]

\* Variant of Cleared in which clear() is left out.
ClearedNot(buf) == buf

\* The buffer after buffer.clear()
Cleared(buf) == <<>>

\* A caller thread calls readShellOutputStream() or readShellErrorStream().
ReadShellStream(t, s) ==
    /\ phase = "running"
    /\ pc[t] = "idle"
    /\ LockAndMove(t, s)
    /\ op' = [op EXCEPT ![t] = ReadOpOf(s)]
    /\ UNCHANGED <<phase, osVars, lifecycle, pipe, pumpVars, retVars,
                   histVars, forced>>

\* hasExited() reaches one of its readShell...Stream() calls.
DrainLock(t) ==
    /\ phase = "running"
    /\ pc[t] = "lock"
    /\ LockAndMove(t, cur[t])
    /\ UNCHANGED <<phase, osVars, lifecycle, pipe, pumpVars, op, retVars,
                   histVars, forced>>

\* buffer.clear(); return result; the lock_guard releases the mutex.  A
\* direct call hands result to the caller; inside hasExited() the result is
\* dropped and the call goes on to the error stream, then returns true
\* (exitCode() then returns procExitCode).
DrainClear(t) ==
    /\ phase = "running"
    /\ pc[t] = "clear"
    /\ LET s == cur[t]
           direct == op[t] \in {ReadOpOf(x) : x \in Streams}
           more == ~direct /\ s = "output"
       IN  /\ buffer' = [buffer EXCEPT ![s] = Cleared(@)]
           /\ mutex' = Unlocked(mutex, s)
           /\ drained' = [drained EXCEPT ![s] = @ \o result[t]]
           /\ handed' = IF direct
                        THEN [handed EXCEPT ![s] = @ \o result[t]]
                        ELSE handed
           /\ result' = [result EXCEPT ![t] = <<>>]
           /\ IF more
              THEN /\ pc' = [pc EXCEPT ![t] = "lock"]
                   /\ cur' = [cur EXCEPT ![t] = "error"]
                   /\ UNCHANGED <<op, retVars>>
              ELSE /\ pc' = [pc EXCEPT ![t] = "idle"]
                   /\ cur' = [cur EXCEPT ![t] = None]
                   /\ op' = [op EXCEPT ![t] = None]
                   /\ IF direct
                      THEN UNCHANGED retVars
                      ELSE /\ lastOp' = op[t]
                           /\ retVal' = IF op[t] = "hasExited" THEN TRUE
                                        ELSE procExitCode
                           /\ exitSeen' = (exitSeen \/ op[t] = "hasExited")
    /\ UNCHANGED <<phase, osVars, lifecycle, pipe, pumpVars, wrote, appended,
                   forced>>

\* ------------------------------------------------- hasExited / exitCode

\* Variant of ExitCodeOf that stores the raw wait status.
ExitCodeRaw(status) == status

\* procExitCode = WIFEXITED(status) ? WEXITSTATUS(status) : 1
ExitCodeOf(status) == IF WIFEXITED(status) THEN WEXITSTATUS(status) ELSE 1

\* Variant of WaitpidIssued for a hasExited() without the test of the
\* latched status in front.
WaitpidAlways == TRUE

\* hasExited() gets as far as its waitpid(procId, &status, WNOHANG) call:
\* the if(procHasExited) block in front of it returns.
WaitpidIssued == ~procHasExited

\* Variant of hasExitedBody that empties the buffers also when waitpid
\* reports a child that is still running.
hasExitedBodyDraining(asOp) ==
    /\ procHasExited' = (procHasExited \/ child = "zombie")
    /\ procExitCode' = IF ~procHasExited /\ child = "zombie"
                       THEN ExitCodeOf(WaitStatus(childEnd))
                       ELSE procExitCode
    /\ child' = IF ~procHasExited /\ child = "zombie" THEN "reaped" ELSE child
    /\ pc' = [pc EXCEPT !["main"] = "lock"]
    /\ cur' = [cur EXCEPT !["main"] = "output"]
    /\ op' = [op EXCEPT !["main"] = asOp]
    /\ UNCHANGED retVars

\* The body of hasExited(), entered for the call asOp ("hasExited", or
\* "exitCode" when exitCode() calls it): latched already, or waitpid with
\* WNOHANG finds the terminated child and latches, or returns false.
hasExitedBody(asOp) ==
    LET reaps == WaitpidIssued /\ child = "zombie"
    IN
    IF ~WaitpidIssued \/ reaps
    THEN /\ procHasExited' = TRUE
         /\ procExitCode' = IF reaps THEN ExitCodeOf(WaitStatus(childEnd))
                            ELSE procExitCode
         /\ child' = IF reaps THEN "reaped" ELSE child
         /\ pc' = [pc EXCEPT !["main"] = "lock"]
         /\ cur' = [cur EXCEPT !["main"] = "output"]
         /\ op' = [op EXCEPT !["main"] = asOp]
         /\ UNCHANGED retVars
    ELSE /\ lastOp' = asOp
         /\ retVal' = IF asOp = "hasExited" THEN procHasExited
                      ELSE procExitCode
         /\ UNCHANGED <<procHasExited, procExitCode, child, pc, cur, op,
                        exitSeen>>

\* bool MyShell::hasExited()
HasExited ==
    /\ phase = "running"
    /\ pc["main"] = "idle"
    /\ hasExitedBody("hasExited")
    /\ UNCHANGED <<phase, fds, childEnd, termPending, stopSignal, pipe,
                   buffer, mutex, pumpVars, result, histVars, forced>>

\* int MyShell::exitCode()
ExitCode ==
    /\ phase = "running"
    /\ pc["main"] = "idle"
    /\ IF ~procHasExited
       THEN hasExitedBody("exitCode")
       ELSE /\ lastOp' = "exitCode"
            /\ retVal' = procExitCode
            /\ UNCHANGED <<procHasExited, procExitCode, child, pc, cur, op,
                           exitSeen>>
    /\ UNCHANGED <<phase, fds, childEnd, termPending, stopSignal, pipe,
                   buffer, mutex, pumpVars, result, histVars, forced>>

\* ------------------------------------------------------------- forceExit

\* Variant of ForceExit that keeps an exit code latched earlier.
ForceExitKeepsCode ==
    /\ phase = "running"
    /\ pc["main"] = "idle"
    /\ termPending' = (termPending \/ child = "running")
    /\ procHasExited' = TRUE
    /\ procExitCode' = IF procHasExited THEN procExitCode ELSE 1
    /\ forced' = TRUE
    /\ lastOp' = "forceExit"
    /\ retVal' = None
    /\ UNCHANGED <<phase, fds, child, childEnd, stopSignal, pipe, buffer,
                   mutex, pumpVars, callVars, exitSeen, histVars>>

\* kill(procId, SIGTERM); procHasExited = true; procExitCode = 1;
ForceExit ==
    /\ phase = "running"
    /\ pc["main"] = "idle"
    /\ termPending' = (termPending \/ child = "running")
    /\ procHasExited' = TRUE
    /\ procExitCode' = 1
    /\ forced' = TRUE
    /\ lastOp' = "forceExit"
    /\ retVal' = None
    /\ UNCHANGED <<phase, fds, child, childEnd, stopSignal, pipe, buffer,
                   mutex, pumpVars, callVars, exitSeen, histVars>>

\* ----------------------------------------------------------- writeToShell

\* write(inputPipe[1], input.c_str(), input.length()) for the one-byte
\* string input = <<v>>.  While the child holds the read end the byte is
\* queued (the call blocks while the pipe is full).  Once the child is gone
\* the pipe has no reader and the kernel raises SIGPIPE in the caller: under
\* the default disposition, which MyShell never changes, the calling
\* process is terminated; if the embedding program ignores SIGPIPE, write
\* returns -1 with EPIPE and std::system_error is thrown.
WriteToShell(v, sigpipe) ==
    /\ phase = "running"
    /\ pc["main"] = "idle"
    /\ IF child = "running"
       THEN /\ Len(pipe.input) < MaxInput
            /\ pipe' = [pipe EXCEPT !.input = Append(@, v)]
            /\ lastOp' = "writeToShell"
            /\ retVal' = "ok"
            /\ UNCHANGED phase
       ELSE IF sigpipe = "default"
            THEN /\ phase' = "killed"
                 /\ UNCHANGED <<pipe, lastOp, retVal>>
            ELSE /\ lastOp' = "writeToShell"
                 /\ retVal' = "WriteFailure"
                 /\ UNCHANGED <<phase, pipe>>
    /\ UNCHANGED <<osVars, lifecycle, buffer, mutex, pumpVars, callVars,
                   exitSeen, histVars, forced>>

\* -------------------------------------------------------------- ~MyShell

\* The stream whose reader the destructor is waiting for, if any.
JoinOf(s) == IF s = "output" THEN "joinOutput" ELSE "joinError"

\* Variant of Joined in which the destructor does not wait for the reader.
JoinedWithoutWaiting(s) == TRUE

\* outputReader.join() / errorReader.join() returns: the thread function
\* of the stream's reader has returned.
Joined(s) == pumpPc[s] = "done"

\* ~MyShell begins: this->stopSignal = true;
DestroyStop ==
    /\ phase = "running"
    /\ pc["main"] = "idle"
    /\ stopSignal' = TRUE
    /\ pc' = [pc EXCEPT !["main"] = JoinOf("output")]
    /\ UNCHANGED <<phase, osVars, procHasExited, procExitCode, pipe, buffer,
                   mutex, pumpVars, op, cur, result, retVars, histVars,
                   forced>>

\* if(outputReader.joinable()) outputReader.join(); likewise errorReader.
DestroyJoin(s) ==
    /\ phase = "running"
    /\ pc["main"] = JoinOf(s)
    /\ Joined(s)
    /\ pc' = [pc EXCEPT !["main"] =
                 IF s = "output" THEN JoinOf("error") ELSE "close"]
    /\ UNCHANGED <<phase, osVars, lifecycle, pipe, buffer, mutex, pumpVars,
                   op, cur, result, retVars, histVars, forced>>

\* this->closeUnixPipes(); the destructor returns.  Nothing in it signals
\* or waits for the child.
DestroyClose ==
    /\ phase = "running"
    /\ pc["main"] = "close"
    /\ fds' = closeUnixPipes(fds)
    /\ phase' = "destroyed"
    /\ pc' = [pc EXCEPT !["main"] = "idle"]
    /\ UNCHANGED <<child, childEnd, termPending, lifecycle, pipe, buffer,
                   mutex, pumpVars, op, cur, result, retVars, histVars,
                   forced>>

Destructor ==
    \/ DestroyStop
    \/ \E s \in Streams : DestroyJoin(s)
    \/ DestroyClose

\* ------------------------------------------------------------ specification

\* The steps of the child's life and of the two reader threads.
Termination ==
    \/ \E n \in ExitCodes : ChildExit(n)
    \/ \E g \in {SIGTERM} \cup CrashSignals : ChildSignalled(g)

Pumps ==
    \/ \E s \in Streams : PumpRead(s)
    \/ \E s \in Streams : PumpAppend(s)
    \/ \E s \in Streams : PumpSleep(s)

\* One calling thread using every public operation on a command that
\* echoes its stdin to its stdout.
Next ==
    \/ \E o \in SpawnOutcomes : Construct(o)
    \/ ChildEcho
    \/ Termination
    \/ Pumps
    \/ \E s \in Streams : ReadShellStream("main", s)
    \/ DrainLock("main")
    \/ DrainClear("main")
    \/ HasExited
    \/ ExitCode
    \/ ForceExit
    \/ \E v \in InputVals, d \in SigPipeDispositions : WriteToShell(v, d)
    \/ Destructor

Spec == Init /\ [][Next]_vars

\* The pass of the reader's loop that finds stopSignal set and returns.
PumpReturn(s) == PumpRead(s) /\ pumpPc'[s] = "done"

\* The same under fair scheduling of the reader threads and of the thread
\* that runs the destructor.  The store to stopSignal reaches a reader that
\* keeps loading the flag: of its passes after the store, one finds it set.
TeardownSpec ==
    /\ Init
    /\ [][Next]_vars
    /\ \A s \in Streams : /\ WF_vars(PumpRead(s))
                          /\ SF_vars(PumpReturn(s))
                          /\ WF_vars(PumpAppend(s))
                          /\ WF_vars(PumpSleep(s))
                          /\ WF_vars(DestroyJoin(s))
    /\ WF_vars(DestroyClose)

\* The stream path: a command that writes to both streams, the two reader
\* threads, and drains issued from two threads next to hasExited().
DrainNext ==
    \/ \E o \in SpawnOutcomes : Construct(o)
    \/ \E s \in Streams, v \in ByteVals : ChildWrite(s, v)
    \/ \E n \in ExitCodes : ChildExit(n)
    \/ Pumps
    \/ \E t \in Callers, s \in Streams : ReadShellStream(t, s)
    \/ DrainLock("main")
    \/ \E t \in Callers : DrainClear(t)
    \/ HasExited
    \/ ForceExit

DrainSpec == Init /\ [][DrainNext]_vars

\* A caller that keeps polling hasExited() and never calls forceExit().
PollNext ==
    \/ \E o \in SpawnOutcomes : Construct(o)
    \/ \E s \in Streams, v \in ByteVals : ChildWrite(s, v)
    \/ \E n \in ExitCodes : ChildExit(n)
    \/ \E g \in CrashSignals : ChildSignalled(g)
    \/ Pumps
    \/ DrainLock("main")
    \/ DrainClear("main")
    \/ HasExited
    \/ ExitCode

PollSpec ==
    /\ Init
    /\ [][PollNext]_vars
    /\ SF_vars(HasExited)
    /\ WF_vars(DrainLock("main"))
    /\ WF_vars(DrainClear("main"))

\* The locking: the two reader threads, one thread that polls hasExited()
\* and a second thread that drains, under a scheduler that lets a thread
\* waiting for a mutex take it if it is free again and again, and lets the
\* holder of a mutex run.  The locking does not look at the bytes or at the
\* exit status, so the child writes one byte value and exits with one code.
LockNext ==
    \/ \E o \in SpawnOutcomes : Construct(o)
    \/ \E s \in Streams, v \in ByteVals \ {0} : ChildWrite(s, v)
    \/ \E n \in ExitCodes \ {0} : ChildExit(n)
    \/ Pumps
    \/ \E s \in Streams : ReadShellStream("aux", s)
    \/ DrainLock("main")
    \/ \E t \in Callers : DrainClear(t)
    \/ HasExited

LockSpec ==
    /\ Init
    /\ [][LockNext]_vars
    /\ \A s \in Streams : SF_vars(PumpAppend(s))
    /\ SF_vars(DrainLock("main"))
    /\ \A t \in Callers : WF_vars(DrainClear(t))

\* ------------------------------------------------------------------ claims

Range(q) == {q[i] : i \in 1..Len(q)}
MainIdle == pc["main"] = "idle"

\* The stream positions of the bytes of q grow strictly from left to right.
InStreamOrder(q) == \A i, j \in 1..Len(q) : i < j => q[i][1] < q[j][1]

\* C1: once forceExit() has been called, the flag is latched with code 1
\* and every hasExited() call completed afterwards returned true, every
\* exitCode() call returned 1, whatever became of the child.
C1_ForceExitLatches ==
    forced => /\ procHasExited
              /\ procExitCode = 1
              /\ lastOp = "hasExited" => retVal = TRUE
              /\ lastOp = "exitCode" => retVal = 1

\* C1 witness: exitCode() returned 1 after forceExit() although the child
\* had already been reaped with another status.
C1_Witness ==
    /\ forced /\ lastOp = "exitCode" /\ retVal = 1
    /\ child = "reaped" /\ childEnd = <<"exit", 3>>

\* C1 witness of the other case: hasExited() returned true after
\* forceExit() while the child is in fact still running.
C1_WitnessAlive ==
    forced /\ lastOp = "hasExited" /\ retVal = TRUE /\ child = "running"

\* What the claims expect exitCode() to report for a terminated child.
Expected == IF childEnd[1] = "exit" THEN childEnd[2] ELSE 1

\* C2: with a caller that keeps polling and never forces the exit, a
\* terminated child leads to hasExited() returning true, and an exitCode()
\* call completed once the exit is latched returns the child's status N,
\* or 1 if a signal killed it.
C2_ExitCodeFidelity ==
    /\ [](MainIdle /\ procHasExited /\ lastOp = "exitCode"
            => retVal = Expected)
    /\ [](procHasExited => procExitCode = Expected)
    /\ (child = "zombie") ~> (lastOp = "hasExited" /\ retVal = TRUE)

\* C2 witness: exitCode() returned 3 for a child that called exit(3),
\* after hasExited() had returned true.
C2_Witness ==
    /\ exitSeen /\ MainIdle /\ lastOp = "exitCode" /\ retVal = 3
    /\ childEnd = <<"exit", 3>>

\* C2 witness of the abnormal case: exitCode() returned 1 for a child
\* killed by a signal.
C2_WitnessSignal ==
    /\ MainIdle /\ lastOp = "exitCode" /\ retVal = 1
    /\ childEnd = <<"signal", 11>>

\* C3: an exitCode() call that found the child still running (nothing
\* latched, no forceExit) returned -1.
C3_RunningSentinel ==
    (MainIdle /\ lastOp = "exitCode" /\ ~procHasExited) => retVal = -1

\* C4: once procHasExited is true the stored exit code is never written
\* with another value.
C4_LatchedOnce ==
    [][procHasExited => procExitCode' = procExitCode]_vars

\* C5: procHasExited never goes back from true to false, every hasExited()
\* call after one that returned true returns true, and no byte that a
\* drain removed from a buffer is ever in that buffer again.
C5_PostExitIdempotent ==
    /\ [][procHasExited => procHasExited']_vars
    /\ [](exitSeen /\ lastOp = "hasExited" => retVal = TRUE)
    /\ [](\A s \in Streams : Range(buffer[s]) \cap Range(drained[s]) = {})

\* C5 witness: hasExited() has returned true and drained a byte of stdout,
\* was called again, and a later byte has since arrived in the buffer.
C5_Witness ==
    /\ exitSeen /\ lastOp = "hasExited" /\ retVal = TRUE
    /\ drained.output # <<>> /\ handed.output = <<>>
    /\ buffer.output # <<>>

\* C6: whenever nobody is inside a buffer's critical section, the drain
\* results concatenated in lock order, followed by what the buffer still
\* holds, are exactly the bytes the pump appended, each of them once.
C6_DrainAtomicity ==
    \A s \in Streams :
        mutex[s] = None =>
            /\ drained[s] \o buffer[s] = appended[s]
            /\ Cardinality(Range(appended[s])) = Len(appended[s])

\* C6 witness: stdout has been drained before; now one thread is inside a
\* drain of stdout, hasExited() on the other thread waits for the same
\* lock, and the pump waits to append what it has read.
C6_Witness ==
    /\ mutex.output = "aux" /\ pc["main"] = "lock" /\ cur["main"] = "output"
    /\ pumpPc.output = "append" /\ drained.output # <<>>

\* C6 witness for stderr: two drains of stderr by different threads have
\* each returned a byte.
C6_WitnessError ==
    /\ Len(drained.error) = 2 /\ Len(handed.error) = 1
    /\ mutex.error = None

\* C7: with an echoing child that has exited on its own, once hasExited()
\* has returned true and the pump has moved everything the child wrote,
\* every echoed byte has been handed to the caller by a
\* readShellOutputStream() call or is still in the buffer for the next one.
C7_RoundTrip ==
    (exitSeen /\ ~forced /\ MainIdle
       /\ pipe.output = <<>> /\ tempBuffer.output = <<>>)
        => Range(wrote.output) \subseteq
               Range(handed.output) \cup Range(buffer.output)

\* C8: the bytes of a stream leave the buffer in the order the child wrote
\* them, across drains and within one drain result, and a drain returns
\* everything appended since the previous drain of that stream.
C8_AppendOrder ==
    /\ \A s \in Streams :
           mutex[s] = None => InStreamOrder(drained[s] \o buffer[s])
    /\ \A t \in Callers :
           pc[t] = "clear" =>
               /\ InStreamOrder(drained[cur[t]] \o result[t])
               /\ drained[cur[t]] \o result[t] = appended[cur[t]]

\* C8 witness: chunk A was drained by a readShellOutputStream() call, chunk
\* B by a later drain.
C8_Witness ==
    /\ Len(drained.output) = 2 /\ Len(handed.output) = 1
    /\ drained.output[1][1] = 1 /\ drained.output[2][1] = 2

\* C9: when construction fails, no pipe end is left open, no child exists
\* and no reader thread was started.
C9_SpawnFailureClean ==
    phase = "failed" =>
        /\ fds = {}
        /\ child = "none"
        /\ \A s \in Streams : pumpPc[s] = "unstarted"

\* C10: a writeToShell() call on an input pipe whose reader is gone ends
\* with the WriteFailure error handed to the caller and changes neither
\* the lifecycle state nor the buffers.
C10_WriteFailure ==
    [][(child # "running"
          /\ \E v \in InputVals, d \in SigPipeDispositions : WriteToShell(v, d))
        => /\ phase' = "running"
           /\ lastOp' = "writeToShell" /\ retVal' = "WriteFailure"
           /\ UNCHANGED <<procHasExited, procExitCode, buffer>>]_vars

\* C11: once the destructor has returned, the child process is no longer
\* running.
C11_DestructorTerminates ==
    phase = "destroyed" => child # "running"

\* The destructor has been entered and has not yet returned.
InDestructor == pc["main"] \in {JoinOf("output"), JoinOf("error"), "close"}

\* C12: once the destructor has set the stop flag, both readers return, both
\* joins finish and the destructor returns.
C12_TeardownCompletes ==
    InDestructor ~> (phase = "destroyed" /\ \A s \in Streams : pumpPc[s] = "done")

\* C12 witness: the destructor returned although output of the child was
\* never read and the child had exited with its pipes at end of file.
C12_Witness ==
    /\ phase = "destroyed"
    /\ child = "zombie"
    /\ buffer.output # <<>>
    /\ handed.output = <<>>

\* C12 witness: the destructor returned after forceExit().
C12_WitnessForced ==
    phase = "destroyed" /\ forced

\* C13: the parent's pipe ends are closed only after both readers have
\* returned: a reader that may still read has its read end open, and from
\* the moment the destructor is about to close the pipes no reader is left
\* that could read or append.
C13_TeardownOrder ==
    /\ \A s \in Streams :
           pumpPc[s] \in {"read", "append", "sleep"} =>
               (IF s = "output" THEN "outputPipe0" ELSE "errorPipe0") \in fds
    /\ (pc["main"] = "close" \/ phase = "destroyed") =>
           \A s \in Streams : pumpPc[s] = "done"

\* C13 witness: the pipes were closed by the destructor after a reader had
\* appended data.
C13_Witness ==
    /\ phase = "destroyed"
    /\ fds = {}
    /\ appended.output # <<>>

\* C14: a reader whose read reported end of file has left its loop and reads
\* no more.
C14_EofEndsPump ==
    \A s \in Streams : lastRead[s] = "eof" => pumpPc[s] = "done"

\* C15: a reader whose latest read brought no bytes sleeps before it reads
\* again: unless told to stop, it is never back at the read without having
\* slept.
C15_NoBusySpin ==
    \A s \in Streams :
        (lastRead[s] # "ok" /\ ~stopSignal) => pumpPc[s] = "sleep"

\* C16: the append after a read of n > 0 bytes leaves the buffer equal to
\* the buffer before followed by exactly the n bytes read, whatever their
\* values.
C16_AppendExact ==
    [][\A s \in Streams :
           PumpAppend(s) => buffer'[s] = buffer[s] \o tempBuffer[s]]_vars

\* C17: a hasExited() call on a child that has not terminated and was not
\* force-exited returns false at once and leaves the latched status, the
\* exit code, the stop flag and both buffers as they were; no drain is
\* started.
C17_RunningFrame ==
    [][(HasExited /\ child = "running" /\ ~forced)
        => /\ lastOp' = "hasExited" /\ retVal' = FALSE
           /\ UNCHANGED <<procHasExited, procExitCode, stopSignal, buffer,
                          mutex, pc>>]_vars

\* C17 witness: hasExited() returned false for a running child while output
\* of the child was in the buffer, and the output is still there.
C17_Witness ==
    /\ lastOp = "hasExited" /\ retVal = FALSE
    /\ child = "running" /\ ~forced
    /\ pc["main"] = "idle"
    /\ Len(buffer.output) = 1 /\ buffer.error # <<>>
    /\ drained.output = <<>> /\ drained.error = <<>>

\* C18: forceExit() sends its signal only to a child that has not been
\* reaped: no forceExit() call comes after a waitpid that returned the pid.
C18_NoSignalAfterReap ==
    [][ForceExit => child # "reaped"]_vars

\* C19: hasExited() issues waitpid only while the status is unlatched, so
\* never for a pid that was already reaped or force-exited, and the child
\* is reaped only from the terminated, unlatched state (hence once).
C19_WaitOnlyUnlatched ==
    [][/\ ((HasExited \/ (ExitCode /\ ~procHasExited)) /\ WaitpidIssued)
            => (child \in {"running", "zombie"} /\ ~forced)
       /\ (child # "reaped" /\ child' = "reaped")
            => (child = "zombie" /\ ~procHasExited /\ ~forced)]_vars

\* C19 witness: hasExited() was called and returned after the child had
\* been reaped and forceExit() had been called.
C19_Witness ==
    /\ child = "reaped" /\ forced
    /\ lastOp = "hasExited" /\ retVal = TRUE
    /\ pc["main"] = "idle"

C20_WitnessContended ==
    \E s \in Streams : pumpPc[s] = "append" /\ mutex[s] = "aux"

====
